---------------------------- MODULE Spec2Model ----------------------------
(* Image-reference parsing and normalisation of util/image (package image). *)
(* Go strings are TLA+ strings; a Go byte index i is kept 0-based, so       *)
(* name[:i] is SubSeq(name, 1, i) and name[i+1:] is                         *)
(* SubSeq(name, i + 2, Len(name)).                                          *)
EXTENDS Integers, Sequences

VARIABLES
  op,      \* the function called last
  input,   \* its string argument (a name, a remote, a tag or a digest)
  prev,    \* the Named a combinator was applied to
  ref,     \* the Named returned (NilRef: nil)
  err,     \* the error returned ("none": nil)
  norm,    \* what normalize returned
  facade,  \* the Reference Parse returned
  repo,    \* the Repository ParseRepo returned
  steps    \* combinators applied since the Named was built

vars == <<op, input, prev, ref, err, norm, facade, repo, steps>>

(***************************************************************************)
(* Bounds of the model.                                                    *)
(***************************************************************************)
\* most path segments of the repository names enumerated in full
MaxPath == 2
\* most WithTag / WithDigest / WithDefaultTag applications in a row
MaxOps == 2

(***************************************************************************)
(* Constants of the package.                                               *)
(***************************************************************************)
DefaultTag == "latest"
WrongRegistryHostname == "docker.io"
DefaultRegistryHostname == "index.docker.io"
DefaultScheme == "https"
DefaultRepoPrefix == "library/"

(***************************************************************************)
(* The functions of package strings that the code calls.                   *)
(***************************************************************************)
At(s, i) == SubSeq(s, i, i)

\* strings.IndexRune: the 0-based index of the first c in s, -1 when absent
IndexRune(s, c) ==
  IF \A i \in 1..Len(s) : At(s, i) # c THEN -1
  ELSE (CHOOSE i \in 1..Len(s) :
          At(s, i) = c /\ \A j \in 1..(i - 1) : At(s, j) # c) - 1

ContainsRune(s, c) == IndexRune(s, c) >= 0

\* the characters ".:" that mark a first segment as a hostname
HostMarks == {".", ":"}

\* strings.ContainsAny, chars a set of characters
ContainsAny(s, chars) == \E i \in 1..Len(s) : At(s, i) \in chars

HasPrefix(s, p) == Len(s) >= Len(p) /\ SubSeq(s, 1, Len(p)) = p

TrimPrefix(s, p) == IF HasPrefix(s, p) THEN SubSeq(s, Len(p) + 1, Len(s)) ELSE s

\* strings.Replace(s, p, "", 1) for a p that is a prefix of s
ReplaceFirstPrefix(s, p) == SubSeq(s, Len(p) + 1, Len(s))

UpperLetters ==
  {"A", "B", "C", "D", "E", "F", "G", "H", "I", "J", "K", "L", "M",
   "N", "O", "P", "Q", "R", "S", "T", "U", "V", "W", "X", "Y", "Z"}
LowerLetters ==
  {"a", "b", "c", "d", "e", "f", "g", "h", "i", "j", "k", "l", "m",
   "n", "o", "p", "q", "r", "s", "t", "u", "v", "w", "x", "y", "z"}

LowerOf ==
  [c \in UpperLetters |->
     CASE c = "A" -> "a" [] c = "B" -> "b" [] c = "C" -> "c" [] c = "D" -> "d"
       [] c = "E" -> "e" [] c = "F" -> "f" [] c = "G" -> "g" [] c = "H" -> "h"
       [] c = "I" -> "i" [] c = "J" -> "j" [] c = "K" -> "k" [] c = "L" -> "l"
       [] c = "M" -> "m" [] c = "N" -> "n" [] c = "O" -> "o" [] c = "P" -> "p"
       [] c = "Q" -> "q" [] c = "R" -> "r" [] c = "S" -> "s" [] c = "T" -> "t"
       [] c = "U" -> "u" [] c = "V" -> "v" [] c = "W" -> "w" [] c = "X" -> "x"
       [] c = "Y" -> "y" [] c = "Z" -> "z"]

LowerChar(c) == IF c \in UpperLetters THEN LowerOf[c] ELSE c

RECURSIVE ToLower(_)
\* strings.ToLower, computed on the two halves of s
ToLower(s) ==
  IF Len(s) = 0 THEN ""
  ELSE IF Len(s) = 1 THEN LowerChar(s)
  ELSE ToLower(SubSeq(s, 1, Len(s) \div 2))
         \o ToLower(SubSeq(s, Len(s) \div 2 + 1, Len(s)))

(***************************************************************************)
(* The grammar of github.com/distribution/distribution/v3/reference, the   *)
(* imported package that ParseNamed, WithName, WithTag and WithDigest      *)
(* delegate to.  Its regular expressions are modelled by character classes *)
(* (which characters a component may hold and where its separators fall),  *)
(* not by their full repetition structure.                                 *)
(***************************************************************************)
Digits == {"0", "1", "2", "3", "4", "5", "6", "7", "8", "9"}
HexDigits == Digits \cup {"a", "b", "c", "d", "e", "f"}
AlphaNumerics == LowerLetters \cup Digits
PathChars == AlphaNumerics \cup {".", "_", "-"}
DomainChars == LowerLetters \cup UpperLetters \cup Digits \cup {".", "-"}
TagChars == LowerLetters \cup UpperLetters \cup Digits \cup {"_", ".", "-"}

AllIn(s, chars) == \A i \in 1..Len(s) : At(s, i) \in chars

\* one path component: [a-z0-9]+ joined by the separators . _ -
PathComponentOK(c) ==
  /\ c # ""
  /\ AllIn(c, PathChars)
  /\ At(c, 1) \in AlphaNumerics
  /\ At(c, Len(c)) \in AlphaNumerics

RECURSIVE PathOKAt(_, _)
PathOKAt(s, i) ==
  IF i = -1 THEN PathComponentOK(s)
  ELSE /\ PathComponentOK(SubSeq(s, 1, i))
       /\ PathOKAt(SubSeq(s, i + 2, Len(s)),
                   IndexRune(SubSeq(s, i + 2, Len(s)), "/"))

\* path components joined by "/"
PathOK(s) == PathOKAt(s, IndexRune(s, "/"))

HostOK(h) ==
  /\ h # ""
  /\ AllIn(h, DomainChars)
  /\ At(h, 1) \notin {".", "-"}
  /\ At(h, Len(h)) \notin {".", "-"}

PortOK(p) == p # "" /\ AllIn(p, Digits)

DomainOKAt(d, c) ==
  IF c = -1 THEN HostOK(d)
  ELSE HostOK(SubSeq(d, 1, c)) /\ PortOK(SubSeq(d, c + 2, Len(d)))

\* a domain: components of letters (either case), digits and '-', joined by
\* '.', with an optional ":port"
DomainOK(d) == DomainOKAt(d, IndexRune(d, ":"))

NameOKAt(name, i) ==
  \/ PathOK(name)
  \/ /\ i >= 0
     /\ DomainOK(SubSeq(name, 1, i))
     /\ PathOK(SubSeq(name, i + 2, Len(name)))

\* anchoredNameRegexp: an optional domain and "/", then the path components
NameOK(name) == NameOKAt(name, IndexRune(name, "/"))

\* anchoredTagRegexp: [\w][\w.-]{0,127}
TagOK(t) ==
  /\ t # ""
  /\ Len(t) <= 128
  /\ AllIn(t, TagChars)
  /\ At(t, 1) \notin {".", "-"}

\* anchoredIdentifierRegexp: ^([a-f0-9]{64})$
IsIdentifier(s) == Len(s) = 64 /\ AllIn(s, HexDigits)

\* a digest the grammar and go-digest accept: sha256 and its 64 hex digits
DigestOK(d) ==
  /\ HasPrefix(d, "sha256:")
  /\ IsIdentifier(TrimPrefix(d, "sha256:"))

\* strings.LastIndex for one character: 0-based, -1 when absent
LastIndex(s, c) ==
  IF \A i \in 1..Len(s) : At(s, i) # c THEN -1
  ELSE (CHOOSE i \in 1..Len(s) :
          At(s, i) = c /\ \A j \in (i + 1)..Len(s) : At(s, j) # c) - 1

\* A reference of the grammar package is its name, tag and digest ("" when it
\* has none); ok tells a reference from a failed parse.
NoLibRef == [ok |-> FALSE, name |-> "", tag |-> "", digest |-> ""]

\* what stands before and after the "@": <<front, digest, an "@" is there>>
SplitDigestAt(s, at) ==
  IF at = -1 THEN <<s, "", FALSE>>
  ELSE <<SubSeq(s, 1, at), SubSeq(s, at + 2, Len(s)), TRUE>>

SplitDigest(s) == SplitDigestAt(s, IndexRune(s, "@"))

\* the ":" of a tag stands after the last "/": <<name, tag, a ":" is there>>
SplitTagColon(front, slash, colon) ==
  IF colon = -1 THEN <<front, "", FALSE>>
  ELSE <<SubSeq(front, 1, slash + 1 + colon),
         SubSeq(front, slash + colon + 3, Len(front)), TRUE>>

SplitTagAt(front, slash) ==
  SplitTagColon(front, slash,
                IndexRune(SubSeq(front, slash + 2, Len(front)), ":"))

SplitTag(front) == SplitTagAt(front, LastIndex(front, "/"))

LibCheck(nt, d) ==
  IF /\ NameOK(nt[1])
     /\ (~nt[3] \/ TagOK(nt[2]))
     /\ (~d[3] \/ DigestOK(d[2]))
  THEN [ok |-> TRUE, name |-> nt[1], tag |-> nt[2], digest |-> d[2]]
  ELSE NoLibRef

LibParts(d) == LibCheck(SplitTag(d[1]), d)

\* reference.Parse: name [":" tag] ["@" digest]
LibParse(s) == LibParts(SplitDigest(s))

\* the grammar package's own default domain and its legacy name
LibDefaultDomain == "docker.io"
LibLegacyDefaultDomain == "index.docker.io"

LibCut(name, i) ==
  IF \/ i = -1
     \/ /\ ~ContainsAny(SubSeq(name, 1, i), HostMarks)
        /\ SubSeq(name, 1, i) # "localhost"
        /\ ToLower(SubSeq(name, 1, i)) = SubSeq(name, 1, i)
  THEN <<LibDefaultDomain, name>>
  ELSE <<SubSeq(name, 1, i), SubSeq(name, i + 2, Len(name))>>

LibLegacy(dr) ==
  IF dr[1] = LibLegacyDefaultDomain THEN <<LibDefaultDomain, dr[2]>> ELSE dr

LibOfficial(dr) ==
  IF dr[1] = LibDefaultDomain /\ ~ContainsRune(dr[2], "/")
  THEN <<dr[1], "library/" \o dr[2]>>
  ELSE dr

\* splitDockerDomain of the grammar package: <<domain, remainder>>
SplitDockerDomain(name) ==
  LibOfficial(LibLegacy(LibCut(name, IndexRune(name, "/"))))

RemoteNameAt(remainder, tagSep) ==
  IF tagSep > -1 THEN SubSeq(remainder, 1, tagSep) ELSE remainder

LibNormalized(s, dr) ==
  IF IsIdentifier(s) THEN NoLibRef
  ELSE IF ToLower(RemoteNameAt(dr[2], IndexRune(dr[2], ":")))
            # RemoteNameAt(dr[2], IndexRune(dr[2], ":"))
  THEN NoLibRef
  ELSE LibParse(dr[1] \o "/" \o dr[2])

\* reference.ParseNormalizedNamed
ParseNormalizedNamed(s) == LibNormalized(s, SplitDockerDomain(s))

\* reference.WithName: the name alone, when the grammar accepts it
LibWithName(name) == Len(name) <= 255 /\ NameOK(name)

(***************************************************************************)
(* Values of the package.  A Named is one of the wrappers namedRef,        *)
(* taggedRef and canonicalRef around a reference of the grammar package    *)
(* (name, tag, digest); the wrapper decides which of the interfaces        *)
(* NamedTagged and Canonical the value implements, because the embedded    *)
(* interface promotes Name and String only.  NilRef is Go's nil.           *)
(***************************************************************************)
NilRef == [kind |-> "nil", name |-> "", tag |-> "", digest |-> ""]

MkRef(kind, l) ==
  [kind |-> kind, name |-> l.name, tag |-> l.tag, digest |-> l.digest]

Ok(r) == [ref |-> r, err |-> "none"]
Fail(e) == [ref |-> NilRef, err |-> e]

\* the interfaces a value implements
IsNamedTagged(r) == r.kind = "taggedRef"
IsCanonical(r) == r.kind = "canonicalRef"

\* Named.Name and Named.String, promoted from the embedded reference
RefName(r) == r.name
RefString(r) ==
  r.name \o (IF r.tag = "" THEN "" ELSE ":" \o r.tag)
         \o (IF r.digest = "" THEN "" ELSE "@" \o r.digest)

\* taggedRef.Tag and canonicalRef.Digest
RefTag(r) == r.tag
RefDigest(r) == r.digest

\* splitHostname, first statement: the hostname is the first segment when it
\* holds '.' or ':' or is "localhost"
Cut(name, i) ==
  IF \/ i = -1
     \/ /\ ~ContainsAny(SubSeq(name, 1, i), HostMarks)
        /\ SubSeq(name, 1, i) # "localhost"
  THEN [hostname |-> DefaultRegistryHostname, remoteName |-> name]
  ELSE [hostname |-> SubSeq(name, 1, i),
        remoteName |-> SubSeq(name, i + 2, Len(name))]

\* second statement: the legacy hostname becomes the default one
Alias(hr) ==
  IF hr.hostname = WrongRegistryHostname
  THEN [hostname |-> DefaultRegistryHostname, remoteName |-> hr.remoteName]
  ELSE hr

\* third statement: a single segment on the default host gets "library/"
Prefix(hr) ==
  IF hr.hostname = DefaultRegistryHostname /\ ~ContainsRune(hr.remoteName, "/")
  THEN [hostname |-> hr.hostname,
        remoteName |-> DefaultRepoPrefix \o hr.remoteName]
  ELSE hr

\* splitHostname without its second statement
SplitNoAlias(name) == Prefix(Cut(name, IndexRune(name, "/")))

\* splitHostname
splitHostname(name) == Prefix(Alias(Cut(name, IndexRune(name, "/"))))

normalizeSplit(name, hr) ==
  IF ToLower(hr.remoteName) # hr.remoteName
  THEN [ok |-> FALSE, value |-> ""]
  ELSE IF hr.hostname = DefaultRegistryHostname
  THEN [ok |-> TRUE, value |-> TrimPrefix(hr.remoteName, DefaultRepoPrefix)]
  ELSE [ok |-> TRUE, value |-> name]

\* normalize without its lowercase check
normalizeAnyCase(name) ==
  IF splitHostname(name).hostname = DefaultRegistryHostname
  THEN [ok |-> TRUE,
        value |-> TrimPrefix(splitHostname(name).remoteName, DefaultRepoPrefix)]
  ELSE [ok |-> TRUE, value |-> name]

\* normalize: [ok, value]
normalize(name) == normalizeSplit(name, splitHostname(name))

\* ValidateID: TRUE when id is an image ID, 64 hexadecimal characters
ValidateID(id) == Len(id) = 64 /\ AllIn(id, HexDigits)

\* validateName that refuses nothing
validateNothing(name) == FALSE

\* validateName: TRUE when the name is refused
validateName(name) == ValidateID(name)

WithNormalized(n) ==
  IF ~n.ok THEN Fail("InvalidFormat")
  ELSE IF validateName(n.value) THEN Fail("InvalidFormat")
  ELSE IF ~LibWithName(n.value) THEN Fail("ErrReferenceInvalidFormat")
  ELSE Ok(MkRef("namedRef", [name |-> n.value, tag |-> "", digest |-> ""]))

\* WithName
WithName(name) == WithNormalized(normalize(name))

\* reference.WithTag: a Canonical argument keeps its digest beside the tag
LibWithTag(r, tag) ==
  IF ~TagOK(tag) THEN NoLibRef
  ELSE [ok |-> TRUE, name |-> RefName(r), tag |-> tag,
        digest |-> IF IsCanonical(r) THEN RefDigest(r) ELSE ""]

\* reference.WithDigest: a Tagged argument keeps its tag beside the digest
LibWithDigest(r, digest) ==
  IF ~DigestOK(digest) THEN NoLibRef
  ELSE [ok |-> TRUE, name |-> RefName(r), digest |-> digest,
        tag |-> IF IsNamedTagged(r) THEN RefTag(r) ELSE ""]

Wrap(kind, l, e) == IF ~l.ok THEN Fail(e) ELSE Ok(MkRef(kind, l))

\* WithTag
WithTag(r, tag) == Wrap("taggedRef", LibWithTag(r, tag), "ErrTagInvalidFormat")

\* WithDigest
WithDigest(r, digest) ==
  Wrap("canonicalRef", LibWithDigest(r, digest), "ErrDigestInvalidFormat")

FullNameOf(hr) == hr.hostname \o "/" \o hr.remoteName

\* namedRef.FullName, Hostname, RemoteName
FullName(r) == FullNameOf(splitHostname(RefName(r)))
Hostname(r) == splitHostname(RefName(r)).hostname
RemoteName(r) == splitHostname(RefName(r)).remoteName

\* IsNameOnly
IsNameOnly(r) == ~IsNamedTagged(r) /\ ~IsCanonical(r)

\* WithDefaultTag that tags whatever it is given
DefaultTagAlways(r) == WithTag(r, DefaultTag).ref

\* WithDefaultTag
WithDefaultTag(r) == IF IsNameOnly(r) THEN WithTag(r, DefaultTag).ref ELSE r

Attach(named, w) ==
  IF w.err # "none" THEN Fail(w.err)
  ELSE IF named.digest # "" THEN WithDigest(w.ref, named.digest)
  ELSE IF named.tag # "" THEN WithTag(w.ref, named.tag)
  ELSE w

NamedOf(named) ==
  IF ~named.ok THEN Fail("SyntaxError") ELSE Attach(named, WithName(named.name))

\* ParseNamed
ParseNamed(s) == NamedOf(ParseNormalizedNamed(s))

(***************************************************************************)
(* Reference, the facade over a Named and its suffix, and Repository.      *)
(***************************************************************************)
NilReference == [named |-> NilRef, tag |-> "nil"]

\* Reference.Name, ShortName, Registry, Repository, Remote
Name(r) == RemoteName(r.named) \o r.tag
ShortName(r) == RemoteName(r.named)
Registry(r) == Hostname(r.named)
Repository(r) == FullName(r.named)
Remote(r) == FullName(r.named) \o r.tag

\* Reference.Tag that keeps the separator
TagWithSeparator(r) == r.tag

\* Reference.Tag
Tag(r) == IF Len(r.tag) > 1 THEN SubSeq(r.tag, 2, Len(r.tag)) ELSE ""

\* clean
clean(url) ==
  IF HasPrefix(url, "http://") THEN ReplaceFirstPrefix(url, "http://")
  ELSE IF HasPrefix(url, "https://") THEN ReplaceFirstPrefix(url, "https://")
  ELSE url

\* the switch of Parse and ParseRepo on the value's interfaces
Suffix(n) ==
  IF IsCanonical(n) THEN "@" \o RefDigest(n)
  ELSE IF IsNamedTagged(n) THEN ":" \o RefTag(n)
  ELSE ""

MkReference(n) == [named |-> n, tag |-> Suffix(n)]

ReferenceOf(p) ==
  IF p.err # "none" THEN [ref |-> NilReference, err |-> p.err]
  ELSE [ref |-> MkReference(WithDefaultTag(p.ref)), err |-> "none"]

\* Parse: [ref, err], ref a Reference
Parse(remote) == ReferenceOf(ParseNamed(clean(remote)))

NilRepository ==
  [Name |-> "nil", Repository |-> "nil", Registry |-> "nil", Scheme |-> "nil",
   ShortName |-> "nil", Remote |-> "nil", Tag |-> "nil"]

\* the composite literal of ParseRepo: Scheme is not among its fields, and
\* keeps the zero value
Flatten(r) ==
  [Name |-> Name(r), Repository |-> Repository(r), Registry |-> Registry(r),
   Scheme |-> "", ShortName |-> ShortName(r), Remote |-> Remote(r),
   Tag |-> Tag(r)]

RepositoryOf(p) ==
  IF p.err # "none" THEN [repo |-> NilRepository, err |-> p.err]
  ELSE [repo |-> Flatten(MkReference(WithDefaultTag(p.ref))), err |-> "none"]

\* ParseRepo: [repo, err]
ParseRepo(remote) == RepositoryOf(ParseNamed(clean(remote)))

(***************************************************************************)
(* The inputs: names built of segments that exercise every branch of       *)
(* splitHostname (a plain segment, "library", segments that look like a    *)
(* hostname, an uppercase segment, an image ID), with and without a        *)
(* hostname, a scheme, a tag and a digest.                                  *)
(***************************************************************************)
Hex64 == "0123456789abcdef0123456789abcdef0123456789abcdef0123456789abcdef"

Hosts == {"docker.io", "index.docker.io", "localhost", "r.io:5", "R.io"}

PathTokens == {"library", "localhost", "docker.io", "app", "App"}

RECURSIVE PathsUpTo(_)
PathsUpTo(n) ==
  IF n <= 1 THEN PathTokens
  ELSE PathsUpTo(n - 1) \cup
       {p \o "/" \o t : p \in PathsUpTo(n - 1), t \in PathTokens}

\* deeper paths that begin with the official prefix, and one that does not
DeepPaths == {"library/app/app", "library/library/app", "app/app/app"}

Paths == PathsUpTo(MaxPath) \cup DeepPaths \cup {Hex64, "library/" \o Hex64}

Names == Paths \cup {h \o "/" \o p : h \in Hosts, p \in Paths}

Tags == {"v1"}

Digests == {"sha256:" \o Hex64}

Suffixes ==
  {""} \cup {":" \o t : t \in Tags} \cup {"@" \o d : d \in Digests}
       \cup {":" \o t \o "@" \o d : t \in Tags, d \in Digests}

Schemes == {"", "http://", "https://"}

Remotes == {sc \o n \o su : sc \in Schemes, n \in Names, su \in Suffixes}

\* arguments of WithTag and WithDigest, a malformed one of each included
TagArgs == Tags \cup {"v2", "-"}
DigestArgs == Digests \cup {"sha256:" \o "f" \o Tail(Hex64), "sha256:00"}

NoNorm == [ok |-> FALSE, value |-> "nil"]

(***************************************************************************)
(* The functions are pure: a behaviour follows one call of normalize,      *)
(* WithName, ParseNamed, Parse or ParseRepo, and then the calls made on    *)
(* the value it returned.                                                   *)
(***************************************************************************)
Init ==
  /\ op = "init"
  /\ input = ""
  /\ prev = NilRef
  /\ ref = NilRef
  /\ err = "none"
  /\ norm = NoNorm
  /\ facade = NilReference
  /\ repo = NilRepository
  /\ steps = 0

\* normalize(x)
DoNormalize ==
  /\ op = "init"
  /\ \E x \in Names :
       /\ op' = "normalize"
       /\ input' = x
       /\ norm' = normalize(x)
  /\ UNCHANGED <<prev, ref, err, facade, repo, steps>>

\* normalize applied to the value normalize returned
DoRenormalize ==
  /\ op = "normalize"
  /\ norm.ok
  /\ op' = "renormalize"
  /\ input' = norm.value
  /\ norm' = normalize(norm.value)
  /\ UNCHANGED <<prev, ref, err, facade, repo, steps>>

\* WithName(x)
DoWithName ==
  /\ op = "init"
  /\ \E x \in Names :
       LET w == WithName(x)
       IN /\ op' = "WithName"
          /\ input' = x
          /\ ref' = w.ref
          /\ err' = w.err
  /\ UNCHANGED <<prev, norm, facade, repo, steps>>

\* ParseNamed(x)
DoParseNamed ==
  /\ op = "init"
  /\ \E x \in Remotes :
       LET w == ParseNamed(x)
       IN /\ op' = "ParseNamed"
          /\ input' = x
          /\ ref' = w.ref
          /\ err' = w.err
  /\ UNCHANGED <<prev, norm, facade, repo, steps>>

\* WithTag(ref, t)
DoWithTag ==
  /\ ref # NilRef
  /\ steps < MaxOps
  /\ \E t \in TagArgs :
       LET w == WithTag(ref, t)
       IN /\ op' = "WithTag"
          /\ input' = t
          /\ ref' = w.ref
          /\ err' = w.err
  /\ prev' = ref
  /\ steps' = steps + 1
  /\ UNCHANGED <<norm, facade, repo>>

\* WithDigest(ref, d)
DoWithDigest ==
  /\ ref # NilRef
  /\ steps < MaxOps
  /\ \E d \in DigestArgs :
       LET w == WithDigest(ref, d)
       IN /\ op' = "WithDigest"
          /\ input' = d
          /\ ref' = w.ref
          /\ err' = w.err
  /\ prev' = ref
  /\ steps' = steps + 1
  /\ UNCHANGED <<norm, facade, repo>>

\* WithDefaultTag(ref)
DoWithDefaultTag ==
  /\ ref # NilRef
  /\ steps < MaxOps
  /\ op' = "WithDefaultTag"
  /\ input' = ""
  /\ prev' = ref
  /\ ref' = WithDefaultTag(ref)
  /\ err' = "none"
  /\ steps' = steps + 1
  /\ UNCHANGED <<norm, facade, repo>>

\* Parse(x)
DoParse ==
  /\ op = "init"
  /\ \E x \in Remotes :
       LET w == Parse(x)
       IN /\ op' = "Parse"
          /\ input' = x
          /\ facade' = w.ref
          /\ err' = w.err
  /\ UNCHANGED <<prev, ref, norm, repo, steps>>

\* ParseRepo(x)
DoParseRepo ==
  /\ op = "init"
  /\ \E x \in Remotes :
       LET w == ParseRepo(x)
       IN /\ op' = "ParseRepo"
          /\ input' = x
          /\ repo' = w.repo
          /\ err' = w.err
  /\ UNCHANGED <<prev, ref, norm, facade, steps>>

Next ==
  \/ DoNormalize
  \/ DoRenormalize
  \/ DoWithName
  \/ DoParseNamed
  \/ DoWithTag
  \/ DoWithDigest
  \/ DoWithDefaultTag
  \/ DoParse
  \/ DoParseRepo

Spec == Init /\ [][Next]_vars

(***************************************************************************)
(* Properties.                                                             *)
(***************************************************************************)
\* the input of Parse as written: scheme removed, then digest and tag split off
WrittenDigest(x) == SplitDigest(clean(x))
WrittenName(x) == SplitTag(WrittenDigest(x)[1])

WrittenSuffix(x) ==
  IF WrittenDigest(x)[3] THEN "@" \o WrittenDigest(x)[2]
  ELSE IF WrittenName(x)[3] THEN ":" \o WrittenName(x)[2]
  ELSE ":latest"

ExpectedRemote(x) ==
  FullNameOf(splitHostname(WrittenName(x)[1])) \o WrittenSuffix(x)

Parsed == op = "Parse" /\ err = "none"

\* C1: Parse(remote).Remote() is hostname + "/" + repoPath + suffix, with
\* (hostname, repoPath) the split of the repository name as written in the
\* input and suffix "@"+digest, ":"+tag or ":latest".
C1_RoundTrip == Parsed => Remote(facade) = ExpectedRemote(input)

\* C2: normalize is idempotent: applied to a value it returned, normalize
\* succeeds and returns that value.
C2_NormalizeIdempotent ==
  op = "renormalize" => norm.ok /\ norm.value = input

\* C3: the Scheme of every Repository ParseRepo returns is the default scheme.
C3_SchemeIsDefault ==
  (op = "ParseRepo" /\ err = "none") => repo.Scheme = DefaultScheme

\* C4: Reference.Name is the stored normalized name (official prefix and
\* default hostname stripped) followed by the suffix.
C4_NameIsStoredName ==
  Parsed => Name(facade) = RefName(facade.named) \o facade.tag

\* C5 as stated: Tag is the tag of a Tagged reference and the empty string for
\* a digest suffix.
C5_TagEmptyForDigest ==
  Parsed => Tag(facade) = (IF IsNamedTagged(facade.named)
                           THEN RefTag(facade.named) ELSE "")

\* C5 as amended: Tag is the suffix without its separator, the tag of a Tagged
\* reference and the digest of a Canonical one; ParseRepo copies it.
C5_TagIsTagOrDigest ==
  /\ Parsed =>
       /\ IsNamedTagged(facade.named) => Tag(facade) = RefTag(facade.named)
       /\ IsCanonical(facade.named) => Tag(facade) = RefDigest(facade.named)
       /\ IsNamedTagged(facade.named) \/ IsCanonical(facade.named)
  /\ (op = "ParseRepo" /\ err = "none") => repo.Tag \notin {"", "nil"}

C5_DigestParsed ==
  /\ Parsed
  /\ IsCanonical(facade.named)
  /\ Tag(facade) = "sha256:" \o Hex64

\* C6: after WithTag or WithDigest the value carries only what was applied
\* last: one of the two capabilities, and a String() that is the name and
\* that tag or digest, with no trace of an earlier one.
C6_OnlyLastApplied ==
  /\ (op = "WithTag" /\ err = "none") =>
       /\ IsNamedTagged(ref) /\ ~IsCanonical(ref)
       /\ RefString(ref) = RefName(ref) \o ":" \o input
  /\ (op = "WithDigest" /\ err = "none") =>
       /\ IsCanonical(ref) /\ ~IsNamedTagged(ref)
       /\ RefString(ref) = RefName(ref) \o "@" \o input

\* C7: WithDefaultTag returns a tagged or digested reference unchanged, turns
\* a name-only one into the same name tagged "latest" (never nil), and applied
\* to its own result changes nothing.
C7_DefaultTag ==
  op = "WithDefaultTag" =>
    /\ ref # NilRef
    /\ (IsNamedTagged(prev) \/ IsCanonical(prev)) => ref = prev
    /\ IsNameOnly(prev) =>
         /\ IsNamedTagged(ref)
         /\ RefName(ref) = RefName(prev)
         /\ RefTag(ref) = DefaultTag
         /\ RefString(ref) = RefName(prev) \o ":latest"
    /\ WithDefaultTag(ref) = ref

C7_NameOnlyTagged ==
  /\ op = "WithDefaultTag"
  /\ prev.kind = "namedRef"
  /\ ref.kind = "taggedRef"
  /\ ref.tag = "latest"

Built == op \in {"WithName", "ParseNamed"} /\ err = "none"

\* C8 as stated: the stored name of every Named built by WithName, ParseNamed
\* or Parse is lowercase, hostname part included.
C8_NameLowercase ==
  /\ Built => ToLower(RefName(ref)) = RefName(ref)
  /\ Parsed => ToLower(RefName(facade.named)) = RefName(facade.named)

\* C8 as amended: the repository path of the stored name is lowercase (the
\* hostname is stored as written).
C8_RemoteNameLowercase ==
  /\ Built => ToLower(RemoteName(ref)) = RemoteName(ref)
  /\ Parsed => ToLower(ShortName(facade)) = ShortName(facade)

C8_UppercaseHostStored ==
  /\ Built
  /\ Hostname(ref) = "R.io"
  /\ RemoteName(ref) = "app"

\* the forms a single-segment name n of the default registry is written in
Forms(n) ==
  {n, "library/" \o n, "docker.io/" \o n, "docker.io/library/" \o n,
   "index.docker.io/" \o n, "index.docker.io/library/" \o n}

SingleNames == {"library", "localhost", "docker.io", "app"}

=============================================================================
